---- MODULE Spec2Model ----
(***************************************************************************)
(* A model of strainer/structure.py: the validator-chain runner, the       *)
(* scalar field, the nested child, the nested list ("many") and the record *)
(* builder ("serializer").                                                 *)
(*                                                                         *)
(* The library is synchronous and keeps no state between calls, so every   *)
(* operation is an operator computed the way the code computes it (a       *)
(* Python `for` loop is a RECURSIVE operator over the loop index carrying   *)
(* the loop's locals), and the state machine is a caller that picks one    *)
(* operation and its inputs, runs it, and observes what came back:         *)
(* `call` is the call made, `ret` what it returned or raised together with *)
(* the accumulator as the call left it.                                    *)
(*                                                                         *)
(* `context` is passed through unchanged by every function and read by     *)
(* none of them; it is left out.  On the serialize side the model covers   *)
(* field.serialize and the record builder over dict_fields; the serialize  *)
(* of child and many is not modelled, no property below depending on it.   *)
(***************************************************************************)
EXTENDS Integers, Sequences, FiniteSets, TLC

VARIABLES pc, call, ret

vars == <<pc, call, ret>>

(***************************************************************************)
(* Bounds of the model.                                                    *)
(***************************************************************************)
MaxVal == 2         \* scalar inputs are None and the integers 1..MaxVal
MaxChain == 3       \* validators in a chain given to run_validators alone
MaxValidators == 2  \* validators of one field
MaxLen == 3         \* elements of a list value
MaxFields == 3      \* fields of one record

(***************************************************************************)
(* Python values.  Every value is a TLA+ function with a domain of strings, *)
(* so that any two can be compared: None, integers and lists are tagged, a *)
(* dict is the function from its keys.  (An error payload, whose shape the *)
(* code fixes, is kept plain: a list of reasons is a sequence.)            *)
(***************************************************************************)
None == [none |-> TRUE]

PyInt(n) == [int |-> n]

PyList(s) == [list |-> s]

IsInt(v) == DOMAIN v = {"int"}

EmptyDict == [k \in {} |-> None]

\* d.get(k)
Get(d, k) == IF k \in DOMAIN d THEN d[k] ELSE None

\* d.get(k, default)
GetDefault(d, k, default) == IF k \in DOMAIN d THEN d[k] ELSE default

\* d[k] = v
Put(d, k, v) == [x \in DOMAIN d \cup {k} |-> IF x = k THEN v ELSE d[x]]

\* d.update(e)
Update(d, e) ==
    [x \in DOMAIN d \cup DOMAIN e |-> IF x \in DOMAIN e THEN e[x] ELSE d[x]]

\* the truth value of a list or a dict: `if errors:`
Truthy(c) == DOMAIN c # {}

(***************************************************************************)
(* Validators are supplied by the caller: (value, context) -> value, or a  *)
(* ValidationException whose .errors is the validator's reason.  These are *)
(* the ones the caller of the model supplies.                              *)
(***************************************************************************)
ScalarValidators == {"required", "reject_even", "increment", "always_fail"}

ObjectValidators == {"required", "nonempty", "always_fail"}

Returns(v) == [raised |-> FALSE, value |-> v, errors |-> <<>>]

Raises(e) == [raised |-> TRUE, value |-> None, errors |-> e]

Validator(kind, value) ==
    CASE kind = "required" ->
            IF value = None THEN Raises("required") ELSE Returns(value)
      [] kind = "reject_even" ->
            IF IsInt(value) /\ value.int % 2 = 0
            THEN Raises("even") ELSE Returns(value)
      [] kind = "increment" ->
            IF IsInt(value) THEN Returns(PyInt((value.int % MaxVal) + 1))
            ELSE Returns(value)
      [] kind = "nonempty" ->
            IF value = PyList(<<>>) \/ DOMAIN value = {}
            THEN Raises("empty") ELSE Returns(value)
      [] kind = "always_fail" -> Raises("invalid")

(***************************************************************************)
(* run_validators(value, validators, context).  `applied` is the record of *)
(* the calls made: which validator, on which value.                        *)
(***************************************************************************)
RECURSIVE RunValidatorsLoop(_, _, _, _, _)

\* run_validators as it would be if the first failure ended the chain
RunValidatorsLoopStopAtFirst(validators, i, value, errors, applied) ==
    IF i > Len(validators)
    THEN [value |-> value, errors |-> errors, applied |-> applied]
    ELSE LET r == Validator(validators[i], value)
             log == Append(applied, [validator |-> i, arg |-> value])
         IN  IF r.raised
             THEN [value |-> value, errors |-> errors \o <<r.errors>>,
                   applied |-> log]
             ELSE RunValidatorsLoop(validators, i + 1, r.value, errors, log)

RunValidatorsLoop(validators, i, value, errors, applied) ==
    IF i > Len(validators)
    THEN [value |-> value, errors |-> errors, applied |-> applied]
    ELSE LET r == Validator(validators[i], value)
             log == Append(applied, [validator |-> i, arg |-> value])
         IN  IF r.raised
             THEN RunValidatorsLoop(validators, i + 1, value,
                                    errors \o <<r.errors>>, log)
             ELSE RunValidatorsLoop(validators, i + 1, r.value, errors, log)

run_validators(value, validators) ==
    RunValidatorsLoop(validators, 1, value, <<>>, <<>>)

(***************************************************************************)
(* What a deserialize call can come to: it returns, it raises a            *)
(* ValidationException carrying `errors`, or another exception leaves it.  *)
(* `target` is the accumulator as the call left it, `calls` the record of  *)
(* the calls it made to a sub-Translator.                                  *)
(***************************************************************************)
Return(target, calls) ==
    [status |-> "ok", errors |-> EmptyDict, target |-> target, calls |-> calls]

ValidationException(errors, target, calls) ==
    [status |-> "ValidationException", errors |-> errors,
     target |-> target, calls |-> calls]

Exception(kind, target, calls) ==
    [status |-> kind, errors |-> EmptyDict, target |-> target, calls |-> calls]

(***************************************************************************)
(* field(source_field, target_field, validators, multiple)                 *)
(***************************************************************************)
field(source_field, target_field, validators, multiple) ==
    [kind |-> "field",
     source_field |-> source_field,
     target_field |-> IF target_field # "" THEN target_field ELSE source_field,
     validators |-> validators,
     multiple |-> multiple]

\* _validate(value, field, context)
field_validate(f, value, key) ==
    LET r == run_validators(value, f.validators)
    IN  IF Truthy(r.errors) THEN Raises(Put(EmptyDict, key, r.errors))
        ELSE Returns(r.value)

\* the loop of field.deserialize over enumerate(value); i counts from 0
RECURSIVE FieldMultipleLoop(_, _, _, _, _)

\* the loop as it would be if it kept the errors of the last failing element only
FieldMultipleLoopLastErrorOnly(f, value, i, errors, new_value) ==
    IF i >= Len(value.list)
    THEN [errors |-> errors, new_value |-> new_value]
    ELSE LET r == field_validate(f, value.list[i + 1], i)
         IN  IF r.raised
             THEN FieldMultipleLoop(f, value, i + 1, r.errors, new_value)
             ELSE FieldMultipleLoop(f, value, i + 1, errors,
                                    new_value \o <<r.value>>)

FieldMultipleLoop(f, value, i, errors, new_value) ==
    IF i >= Len(value.list)
    THEN [errors |-> errors, new_value |-> new_value]
    ELSE LET r == field_validate(f, value.list[i + 1], i)
         IN  IF r.raised
             THEN FieldMultipleLoop(f, value, i + 1,
                                    Update(errors, r.errors), new_value)
             ELSE FieldMultipleLoop(f, value, i + 1, errors,
                                    new_value \o <<r.value>>)

field_deserialize(f, source, target) ==
    IF source = None THEN Exception("AttributeError", target, <<>>)
    ELSE
    LET value == Get(source, f.target_field)
    IN  IF f.multiple
        THEN IF value = None THEN Exception("TypeError", target, <<>>)
             ELSE LET loop == FieldMultipleLoop(f, value, 0, EmptyDict, <<>>)
                  IN  IF Truthy(loop.errors)
                      THEN ValidationException(
                               Put(EmptyDict, f.target_field, loop.errors),
                               target, <<>>)
                      ELSE Return(Put(target, f.source_field,
                                      PyList(loop.new_value)), <<>>)
        ELSE LET r == field_validate(f, value, f.target_field)
             IN  IF r.raised THEN ValidationException(r.errors, target, <<>>)
                 ELSE Return(Put(target, f.source_field, r.value), <<>>)

(***************************************************************************)
(* field.serialize(source, target, context), with dict_field's attr_getter *)
(* (d.get(source_field)).  Formatters are supplied by the caller:          *)
(* (value, context) -> value.                                              *)
(***************************************************************************)
Formatters == {"increment", "zero"}

Formatter(kind, value) ==
    CASE kind = "increment" ->
            IF IsInt(value) THEN PyInt((value.int % MaxVal) + 1) ELSE value
      [] kind = "zero" -> PyInt(0)

RECURSIVE FormatLoop(_, _, _)
FormatLoop(formatters, i, value) ==
    IF i > Len(formatters) THEN value
    ELSE FormatLoop(formatters, i + 1, Formatter(formatters[i], value))

\* field.serialize as it would be if it wrote under source_field, ignoring the
\* rename
field_serialize_no_rename(f, formatters, source, target) ==
    LET value == Get(source, f.source_field)
    IN  Put(target, f.source_field,
            IF Truthy(formatters) THEN FormatLoop(formatters, 1, value)
            ELSE value)

field_serialize(f, formatters, source, target) ==
    LET value == Get(source, f.source_field)
    IN  Put(target, f.target_field,
            IF Truthy(formatters) THEN FormatLoop(formatters, 1, value)
            ELSE value)

(***************************************************************************)
(* child(...), many(...) and serializer(fields).  A serializer is the      *)
(* sequence of its fields; a child or a many holds its sub-serializer.     *)
(***************************************************************************)
child(source_field, target_field, serializer, validators) ==
    [kind |-> "child",
     source_field |-> source_field,
     target_field |-> IF target_field # "" THEN target_field ELSE source_field,
     serializer |-> serializer,
     validators |-> validators]

many(source_field, target_field, serializer, validators) ==
    [kind |-> "many",
     source_field |-> source_field,
     target_field |-> IF target_field # "" THEN target_field ELSE source_field,
     serializer |-> serializer,
     validators |-> validators]

RECURSIVE serializer_deserialize(_, _)
RECURSIVE SerializerLoop(_, _, _, _, _, _)
RECURSIVE ManyLoop(_, _, _, _, _, _)

\* `if validators: sub_source, errors = run_validators(...)`
PreValidate(f, sub_source) ==
    IF Truthy(f.validators) THEN run_validators(sub_source, f.validators)
    ELSE [value |-> sub_source, errors |-> <<>>, applied |-> <<>>]

\* what one call of the sub-Translator's deserialize was given and came to
SubCall(arg, r) ==
    [arg |-> arg, status |-> r.status, value |-> r.value, errors |-> r.errors]

\* child.deserialize as it would be if it re-raised the sub-Translator's error
\* without nesting it under target_field
child_delegated_no_rekey(f, target, sub_source, r) ==
    CASE r.status = "ok" ->
            Return(Put(target, f.source_field, r.value),
                   <<SubCall(sub_source, r)>>)
      [] r.status = "ValidationException" ->
            ValidationException(r.errors, target, <<SubCall(sub_source, r)>>)
      [] OTHER -> Exception(r.status, target, <<SubCall(sub_source, r)>>)

\* child.deserialize, lines 151-158: r is what serializer.deserialize(sub_source)
\* came to
child_delegated(f, target, sub_source, r) ==
    CASE r.status = "ok" ->
            Return(Put(target, f.source_field, r.value),
                   <<SubCall(sub_source, r)>>)
      [] r.status = "ValidationException" ->
            ValidationException(Put(EmptyDict, f.target_field, r.errors),
                                target, <<SubCall(sub_source, r)>>)
      [] OTHER -> Exception(r.status, target, <<SubCall(sub_source, r)>>)

\* child.deserialize as it would be if it delegated whatever the pre-validators
\* said
child_validated_delegate_anyway(f, target, pre) ==
    child_delegated(f, target, pre.value,
                    serializer_deserialize(f.serializer, pre.value))

\* child.deserialize, lines 143-152: pre is what the pre-validators came to
child_validated(f, target, pre) ==
    IF Truthy(pre.errors)
    THEN ValidationException(Put(EmptyDict, f.target_field, pre.errors),
                             target, <<>>)
    ELSE child_delegated(f, target, pre.value,
                         serializer_deserialize(f.serializer, pre.value))

child_deserialize(f, source, target) ==
    IF source = None THEN Exception("AttributeError", target, <<>>)
    ELSE child_validated(f, target, PreValidate(f, Get(source, f.target_field)))

\* many.deserialize, lines 193-196: r is what serializer.deserialize(i) came
\* to; `crashed` is the exception, other than a validation error, that left
\* the loop
ManyStep(f, sub_source, i, collector, errors, calls, r) ==
    CASE r.status = "ok" ->
            ManyLoop(f, sub_source, i + 1, Append(collector, r.value), errors,
                     Append(calls, SubCall(sub_source[i], r)))
      [] r.status = "ValidationException" ->
            ManyLoop(f, sub_source, i + 1, collector, errors \o <<r.errors>>,
                     Append(calls, SubCall(sub_source[i], r)))
      [] OTHER ->
            [crashed |-> r.status, collector |-> collector, errors |-> errors,
             calls |-> Append(calls, SubCall(sub_source[i], r))]

\* the loop of many.deserialize over sub_source
ManyLoop(f, sub_source, i, collector, errors, calls) ==
    IF i > Len(sub_source)
    THEN [crashed |-> "", collector |-> collector, errors |-> errors,
          calls |-> calls]
    ELSE ManyStep(f, sub_source, i, collector, errors, calls,
                  serializer_deserialize(f.serializer, sub_source[i]))

\* many.deserialize as it would be if it wrote the list only when no element
\* failed
many_collected_write_on_success(f, target, loop) ==
    IF loop.crashed # ""
    THEN Exception(loop.crashed, target, loop.calls)
    ELSE IF Truthy(loop.errors)
    THEN ValidationException(Put(EmptyDict, f.target_field, loop.errors),
                             target, loop.calls)
    ELSE Return(Put(target, f.source_field, PyList(loop.collector)),
                loop.calls)

\* many.deserialize, lines 198-205: loop is what the loop came to
many_collected(f, target, loop) ==
    IF loop.crashed # ""
    THEN Exception(loop.crashed, target, loop.calls)
    ELSE IF Truthy(loop.errors)
    THEN ValidationException(
             Put(EmptyDict, f.target_field, loop.errors),
             Put(target, f.source_field, PyList(loop.collector)), loop.calls)
    ELSE Return(Put(target, f.source_field, PyList(loop.collector)),
                loop.calls)

\* many.deserialize, lines 184-196: pre is what the pre-validators came to
many_validated(f, target, pre) ==
    IF Truthy(pre.errors)
    THEN ValidationException(Put(EmptyDict, f.target_field, pre.errors),
                             target, <<>>)
    ELSE many_collected(f, target,
                        ManyLoop(f, pre.value.list, 1, <<>>, pre.errors, <<>>))

many_deserialize(f, source, target) ==
    IF source = None THEN Exception("AttributeError", target, <<>>)
    ELSE many_validated(f, target,
             PreValidate(f, GetDefault(source, f.target_field, PyList(<<>>))))

\* field.deserialize(source, target, context) of a Translator of any kind
Deserialize(f, source, target) ==
    CASE f.kind = "field" -> field_deserialize(f, source, target)
      [] f.kind = "child" -> child_deserialize(f, source, target)
      [] f.kind = "many" -> many_deserialize(f, source, target)

\* what one field's deserialize came to, as the record builder saw it
FieldCall(i, r) ==
    [field |-> i, status |-> r.status, errors |-> r.errors, calls |-> r.calls,
     target |-> r.target]

\* serializer.deserialize, lines 224-227: r is what fields[i].deserialize came
\* to
SerializerStep(fields, i, source, errors, calls, r) ==
    CASE r.status = "ok" ->
            SerializerLoop(fields, i + 1, source, r.target, errors,
                           Append(calls, FieldCall(i, r)))
      [] r.status = "ValidationException" ->
            SerializerLoop(fields, i + 1, source, r.target,
                           Update(errors, r.errors),
                           Append(calls, FieldCall(i, r)))
      [] OTHER ->
            [status |-> r.status, errors |-> EmptyDict, value |-> None,
             target |-> r.target, calls |-> Append(calls, FieldCall(i, r))]

\* the loop of serializer.deserialize over fields, and what follows it.
\* `value` is what the call returns, `target` the accumulator as it left it.
SerializerLoop(fields, i, source, target, errors, calls) ==
    IF i > Len(fields)
    THEN IF Truthy(errors)
         THEN [status |-> "ValidationException", errors |-> errors,
               value |-> None, target |-> target, calls |-> calls]
         ELSE [status |-> "ok", errors |-> EmptyDict,
               value |-> target, target |-> target, calls |-> calls]
    ELSE SerializerStep(fields, i, source, errors, calls,
                        Deserialize(fields[i], source, target))

serializer_deserialize(fields, source) ==
    SerializerLoop(fields, 1, source, EmptyDict, EmptyDict, <<>>)

\* serializer.serialize(source, context), over dict_fields without formatters
RECURSIVE SerializeLoop(_, _, _, _)
SerializeLoop(fields, i, source, target) ==
    IF i > Len(fields) THEN target
    ELSE SerializeLoop(fields, i + 1, source,
                       field_serialize(fields[i], <<>>, source, target))

serializer_serialize(fields, source) ==
    SerializeLoop(fields, 1, source, EmptyDict)

(***************************************************************************)
(* The caller.                                                             *)
(***************************************************************************)
Idle == [op |-> "idle"]

Init ==
    /\ pc = "idle"
    /\ call = Idle
    /\ ret = Idle

Done ==
    /\ pc = "done"
    /\ pc' = "idle"
    /\ call' = Idle
    /\ ret' = Idle

RECURSIVE SeqsUpTo(_, _)
SeqsUpTo(S, n) ==
    IF n = 0 THEN {<<>>}
    ELSE LET shorter == SeqsUpTo(S, n - 1)
         IN  shorter \cup {Append(s, x) : s \in shorter, x \in S}

ScalarValues == {None} \cup {PyInt(n) : n \in 1..MaxVal}

CallRunValidators ==
    /\ pc = "idle"
    /\ \E value \in ScalarValues, validators \in SeqsUpTo(ScalarValidators, MaxChain) :
          /\ call' = [op |-> "run_validators", value |-> value,
                      validators |-> validators]
          /\ ret' = run_validators(value, validators)
    /\ pc' = "done"

NextRunValidators == CallRunValidators \/ Done

SpecRunValidators == Init /\ [][NextRunValidators]_vars

(***************************************************************************)
(* C3.  run_validators applies every validator, in list order, and never   *)
(* aborts the chain: the first validator receives the original value, each *)
(* later one the output of the most recent validator that succeeded (a     *)
(* failing validator leaves the running value as it was), the value        *)
(* returned is the running value after the last validator, and the errors  *)
(* returned are the reasons of the failing validators, one each, in chain  *)
(* order; they are empty iff no validator failed.                          *)
(***************************************************************************)
C3_RunsWholeChain ==
    call.op = "run_validators" =>
        LET vs == call.validators
            n == Len(vs)
            a == ret.applied
            out(i) == Validator(vs[i], a[i].arg)
            after(i) == IF out(i).raised THEN a[i].arg ELSE out(i).value
            failing == SelectSeq([i \in 1..n |-> i], LAMBDA i : out(i).raised)
        IN  /\ Len(a) = n
            /\ \A i \in 1..n : a[i].validator = i
            /\ n > 0 => a[1].arg = call.value
            /\ \A i \in 1..(n - 1) : a[i + 1].arg = after(i)
            /\ ret.value = IF n = 0 THEN call.value ELSE after(n)
            /\ ret.errors = [k \in 1..Len(failing) |-> out(failing[k]).errors]
            /\ (ret.errors = <<>>) <=> (\A i \in 1..n : ~out(i).raised)

\* 1 -> increment -> 2 -> reject_even fails, 2 kept -> increment -> 1
C3_Witness ==
    /\ call.op = "run_validators"
    /\ call.value = PyInt(1)
    /\ call.validators = <<"increment", "reject_even", "increment">>
    /\ ret.value = PyInt(1)
    /\ ret.errors = <<"even">>

(***************************************************************************)
(* A caller of one scalar field's deserialize: the field, the mapping it   *)
(* reads (the key absent, or present with a value of the field's kind) and *)
(* the accumulator it writes into (empty, or holding an earlier write).    *)
(***************************************************************************)
Stale == PyInt(0)

Targets == {EmptyDict, Put(EmptyDict, "a", Stale)}

ListValues == {PyList(s) : s \in SeqsUpTo({PyInt(n) : n \in 1..MaxVal}, MaxLen)}

FieldValues(multiple) == IF multiple THEN ListValues ELSE ScalarValues

SourcesOf(key, values) == {EmptyDict} \cup {Put(EmptyDict, key, v) : v \in values}

CallFieldDeserialize ==
    /\ pc = "idle"
    /\ \E source_field \in {"a", "b"}, target_field \in {"", "b"},
          validators \in SeqsUpTo(ScalarValidators, MaxValidators),
          multiple \in BOOLEAN, target \in Targets,
          source \in SourcesOf("a", ScalarValues \cup ListValues)
                         \cup SourcesOf("b", ScalarValues \cup ListValues) :
          LET f == field(source_field, target_field, validators, multiple)
          IN  /\ DOMAIN source \subseteq {f.target_field}
              /\ \A k \in DOMAIN source : source[k] \in FieldValues(multiple)
              /\ call' = [op |-> "field.deserialize", f |-> f,
                          source |-> source, target |-> target]
              /\ ret' = field_deserialize(f, source, target)
    /\ pc' = "done"

NextField == CallFieldDeserialize \/ Done

SpecField == Init /\ [][NextField]_vars

(***************************************************************************)
(* C4.  A multiple=True field given a list validates every element on its  *)
(* own.  If an element fails, it raises a validation error whose mapping   *)
(* is {target_field: {i: reasons of element i}} over exactly the indices i *)
(* of the failing elements, and the accumulator is as it was; if none      *)
(* fails, the validated values are written under source_field in element   *)
(* order.                                                                  *)
(***************************************************************************)
C4_PerIndexErrors ==
    (/\ call.op = "field.deserialize"
     /\ call.f.multiple
     /\ call.f.target_field \in DOMAIN call.source) =>
        LET f == call.f
            value == call.source[f.target_field].list
            n == Len(value)
            out(i) == run_validators(value[i + 1], f.validators)
            failing == {i \in 0..(n - 1) : out(i).errors # <<>>}
        IN  IF failing # {}
            THEN /\ ret.status = "ValidationException"
                 /\ DOMAIN ret.errors = {f.target_field}
                 /\ DOMAIN ret.errors[f.target_field] = failing
                 /\ \A i \in failing :
                        ret.errors[f.target_field][i] = out(i).errors
                 /\ ret.target = call.target
            ELSE /\ ret.status = "ok"
                 /\ ret.target = Put(call.target, f.source_field,
                                     PyList([k \in 1..n |-> out(k - 1).value]))

\* [1, 2, 1] against a validator rejecting even numbers: index 1 only
C4_Witness ==
    /\ call.op = "field.deserialize"
    /\ call.f.multiple
    /\ call.f.validators = <<"reject_even">>
    /\ call.f.source_field = "a"
    /\ call.f.target_field = "b"
    /\ call.source = [b |-> PyList(<<PyInt(1), PyInt(2), PyInt(1)>>)]
    /\ call.target = [a |-> Stale]
    /\ ret.status = "ValidationException"
    /\ ret.errors = [b |-> [i \in {1} |-> <<"even">>]]
    /\ ret.target = [a |-> Stale]

(***************************************************************************)
(* C5.  A scalar field's deserialize, multiple or not, ends in no other    *)
(* way than returning or raising a validation error; in particular when    *)
(* target_field is absent from the source.                                 *)
(***************************************************************************)
C5_OnlyValidationErrors ==
    call.op = "field.deserialize" =>
        ret.status \in {"ok", "ValidationException"}

(***************************************************************************)
(* A caller of one child's or one many's deserialize.  The sub-serializer  *)
(* is a record of one field, x, which must be present and not even.        *)
(***************************************************************************)
Sub == <<field("x", "", <<"required", "reject_even">>, FALSE)>>

SubSources == {EmptyDict} \cup {[x |-> PyInt(n)] : n \in 1..MaxVal}

SubLists == {PyList(l) : l \in SeqsUpTo(SubSources, MaxLen)}

CallChildDeserialize ==
    /\ pc = "idle"
    /\ \E source_field \in {"a", "b"}, target_field \in {"", "b"},
          validators \in SeqsUpTo(ObjectValidators, MaxValidators),
          target \in Targets,
          source \in SourcesOf("a", SubSources) \cup SourcesOf("b", SubSources) :
          LET f == child(source_field, target_field, Sub, validators)
          IN  /\ DOMAIN source \subseteq {f.target_field}
              /\ call' = [op |-> "child.deserialize", f |-> f,
                          source |-> source, target |-> target]
              /\ ret' = child_deserialize(f, source, target)
    /\ pc' = "done"

CallManyDeserialize ==
    /\ pc = "idle"
    /\ \E source_field \in {"a", "b"}, target_field \in {"", "b"},
          validators \in SeqsUpTo(ObjectValidators, MaxValidators),
          target \in Targets,
          source \in SourcesOf("a", SubLists) \cup SourcesOf("b", SubLists) :
          LET f == many(source_field, target_field, Sub, validators)
          IN  /\ DOMAIN source \subseteq {f.target_field}
              /\ call' = [op |-> "many.deserialize", f |-> f,
                          source |-> source, target |-> target]
              /\ ret' = many_deserialize(f, source, target)
    /\ pc' = "done"

NextNested == CallChildDeserialize \/ CallManyDeserialize \/ Done

SpecNested == Init /\ [][NextNested]_vars

\* the raw sub-value a child or a many reads from its source
RawSubValue ==
    IF call.op = "many.deserialize"
    THEN GetDefault(call.source, call.f.target_field, PyList(<<>>))
    ELSE Get(call.source, call.f.target_field)

(***************************************************************************)
(* C8.  A child or a many with pre-validators runs the chain on the whole  *)
(* raw sub-value before any delegation: if a pre-validator fails, it       *)
(* raises a validation error {target_field: reasons}, the sub-Translator's *)
(* deserialize is not invoked, not even for one element, and the           *)
(* accumulator is as it was; the sub-Translator is invoked only when every *)
(* pre-validator has passed.                                               *)
(***************************************************************************)
C8_PreValidatorsBeforeDelegation ==
    (/\ call.op \in {"child.deserialize", "many.deserialize"}
     /\ call.f.validators # <<>>) =>
        LET pre == run_validators(RawSubValue, call.f.validators)
        IN  /\ pre.errors # <<>> =>
                  /\ ret.status = "ValidationException"
                  /\ ret.errors = Put(EmptyDict, call.f.target_field, pre.errors)
                  /\ ret.calls = <<>>
                  /\ ret.target = call.target
            /\ ret.calls # <<>> => pre.errors = <<>>

\* a child whose sub-value is well-formed, rejected by its second pre-validator
C8_Witness ==
    /\ call.op = "child.deserialize"
    /\ call.f.validators = <<"required", "always_fail">>
    /\ call.source = [b |-> [x |-> PyInt(1)]]
    /\ call.target = [a |-> Stale]
    /\ ret.status = "ValidationException"
    /\ ret.errors = [b |-> <<"invalid">>]
    /\ ret.calls = <<>>

(***************************************************************************)
(* C9, as claimed.  A child delegates its sub-value to the sub-Translator  *)
(* exactly once, as one object; a validation error E of the sub-Translator *)
(* is re-raised as {target_field: E} with nothing written, and a result r  *)
(* is written under source_field, no other key of the accumulator changing.*)
(***************************************************************************)
C9_DelegatesExactlyOnce ==
    call.op = "child.deserialize" =>
        /\ Len(ret.calls) = 1
        /\ ret.calls[1].status = "ValidationException" =>
              /\ ret.status = "ValidationException"
              /\ ret.errors = Put(EmptyDict, call.f.target_field,
                                  ret.calls[1].errors)
              /\ ret.target = call.target
        /\ ret.calls[1].status = "ok" =>
              /\ ret.status = "ok"
              /\ ret.target = Put(call.target, call.f.source_field,
                                  ret.calls[1].value)

(***************************************************************************)
(* C9, amended.  A child none of whose pre-validators fails (one that has  *)
(* none, in particular) delegates its sub-value, as the pre-validators     *)
(* left it, to the sub-Translator exactly once, as one object, with the    *)
(* outcomes claimed; a child one of whose pre-validators fails does not    *)
(* delegate at all.                                                        *)
(***************************************************************************)
C9_DelegatesOnceUnlessPreValidatorFails ==
    call.op = "child.deserialize" =>
        LET pre == run_validators(RawSubValue, call.f.validators)
        IN  IF pre.errors # <<>>
            THEN ret.calls = <<>>
            ELSE /\ Len(ret.calls) = 1
                 /\ ret.calls[1].arg = pre.value
                 /\ ret.calls[1].status = "ValidationException" =>
                       /\ ret.status = "ValidationException"
                       /\ ret.errors = Put(EmptyDict, call.f.target_field,
                                           ret.calls[1].errors)
                       /\ ret.target = call.target
                 /\ ret.calls[1].status = "ok" =>
                       /\ ret.status = "ok"
                       /\ ret.target = Put(call.target, call.f.source_field,
                                           ret.calls[1].value)

\* a renaming child whose sub-Translator rejects x = 2
C9_Witness ==
    /\ call.op = "child.deserialize"
    /\ call.f.source_field = "a"
    /\ call.f.target_field = "b"
    /\ call.source = [b |-> [x |-> PyInt(2)]]
    /\ call.target = [a |-> Stale]
    /\ Len(ret.calls) = 1
    /\ ret.status = "ValidationException"
    /\ ret.errors = [b |-> [x |-> <<"even">>]]
    /\ ret.target = [a |-> Stale]

(***************************************************************************)
(* A caller of a record's deserialize.  The record is a list of up to      *)
(* MaxFields of the fields below, in any order, repeats allowed; the       *)
(* source holds, for each key the record reads, nothing or a value of the  *)
(* kind the field expects.                                                 *)
(***************************************************************************)
RecordFields ==
    {field("a", "", <<"required">>, FALSE),
     field("c", "a", <<"always_fail">>, FALSE),
     field("l", "", <<"reject_even">>, TRUE),
     many("m", "", Sub, <<>>),
     child("k", "", Sub, <<>>)}

RecordElements == {[x |-> PyInt(1)], [x |-> PyInt(2)]}

RecordValues(key) ==
    CASE key = "a" -> {PyInt(1)}
      [] key = "l" -> {PyList(<<PyInt(1)>>), PyList(<<PyInt(1), PyInt(2)>>)}
      [] key = "m" -> {PyList(l) : l \in SeqsUpTo(RecordElements, MaxLen)}
      [] key = "k" -> RecordElements

RecordKeys == {f.target_field : f \in RecordFields}

\* the mappings over the keys in `keys`, each key absent or present
RECURSIVE RecordSourcesOver(_)
RecordSourcesOver(keys) ==
    IF keys = {} THEN {EmptyDict}
    ELSE LET k == CHOOSE x \in keys : TRUE
             rest == RecordSourcesOver(keys \ {k})
         IN  rest \cup {Put(d, k, v) : d \in rest, v \in RecordValues(k)}

RecordSources == RecordSourcesOver(RecordKeys)

CallSerializerDeserialize ==
    /\ pc = "idle"
    /\ \E fields \in SeqsUpTo(RecordFields, MaxFields),
          source \in RecordSources :
          /\ DOMAIN source \subseteq
                 {fields[i].target_field : i \in DOMAIN fields}
          /\ call' = [op |-> "serializer.deserialize", fields |-> fields,
                      source |-> source]
          /\ ret' = serializer_deserialize(fields, source)
    /\ pc' = "done"

NextRecord == CallSerializerDeserialize \/ Done

SpecRecord == Init /\ [][NextRecord]_vars

(***************************************************************************)
(* C1.  A record's deserialize invokes every field's deserialize exactly   *)
(* once, in list order, whatever earlier fields raised; it raises one      *)
(* validation error if at least one field raised, and returns the          *)
(* populated target only if none did.                                      *)
(***************************************************************************)
C1_EveryFieldInvokedOnce ==
    call.op = "serializer.deserialize" =>
        /\ Len(ret.calls) = Len(call.fields)
        /\ \A i \in 1..Len(ret.calls) : ret.calls[i].field = i
        /\ ret.status \in {"ok", "ValidationException"}
        /\ (\E i \in 1..Len(ret.calls) : ret.calls[i].status # "ok")
              <=> ret.status = "ValidationException"
        /\ ret.status = "ok" => ret.value = ret.target

(***************************************************************************)
(* C2.  No validation error is silently discarded: whenever every field    *)
(* of a record ran, each validation error a field raised is present in the *)
(* aggregate raised to the caller, key by key, with the reasons the field  *)
(* gave, also when two fields use the same target_field.                   *)
(***************************************************************************)
C2_NoErrorDiscarded ==
    (/\ call.op = "serializer.deserialize"
     /\ ret.status \in {"ok", "ValidationException"}) =>
        \A i \in 1..Len(ret.calls) :
            ret.calls[i].status = "ValidationException" =>
                /\ ret.status = "ValidationException"
                /\ \A k \in DOMAIN ret.calls[i].errors :
                      /\ k \in DOMAIN ret.errors
                      /\ ret.errors[k] = ret.calls[i].errors[k]

\* the element indices (from 0) that the entries of a list payload stand at
IndicesOf(payload) == {pos - 1 : pos \in DOMAIN payload}

(***************************************************************************)
(* C7.  Whenever every field of a record ran, each of its many fields      *)
(* delegated every element of its list, in order, a failing element not    *)
(* stopping the later ones; if an element failed, the many raised one      *)
(* validation error keyed by target_field with exactly one entry per       *)
(* failing element, the entry of element i being the one for index i and   *)
(* holding that element's errors; and the errors of every other failing    *)
(* field are reported in the aggregate of the same call.                   *)
(***************************************************************************)
C7_EntriesIdentifyFailingIndices ==
    (/\ call.op = "serializer.deserialize"
     /\ ret.status \in {"ok", "ValidationException"}) =>
        \A j \in 1..Len(ret.calls) :
            call.fields[j].kind = "many" =>
                LET f == call.fields[j]
                    c == ret.calls[j]
                    sub_source == GetDefault(call.source, f.target_field,
                                             PyList(<<>>)).list
                    n == Len(sub_source)
                    failing == {i \in 0..(n - 1) :
                                   c.calls[i + 1].status = "ValidationException"}
                IN  /\ Len(c.calls) = n
                    /\ \A i \in 1..n : c.calls[i].arg = sub_source[i]
                    /\ failing # {} =>
                          /\ c.status = "ValidationException"
                          /\ DOMAIN c.errors = {f.target_field}
                          /\ Len(c.errors[f.target_field]) = Cardinality(failing)
                          /\ IndicesOf(c.errors[f.target_field]) = failing
                          /\ \A i \in failing :
                                c.errors[f.target_field][i + 1]
                                    = c.calls[i + 1].errors
                          /\ \A k \in 1..Len(ret.calls) :
                                DOMAIN ret.calls[k].errors
                                    \subseteq DOMAIN ret.errors

\* the results of the sub-calls that returned, in order
Collected(calls) ==
    LET oks == SelectSeq(calls, LAMBDA s : s.status = "ok")
    IN  [k \in 1..Len(oks) |-> oks[k].value]

\* the accumulator as the i-th field of the record found it
TargetBefore(i) == IF i = 1 THEN EmptyDict ELSE ret.calls[i - 1].target

(***************************************************************************)
(* C10.  When a many field of a record raises because of per-element       *)
(* errors, the accumulator already holds, under source_field, the list of  *)
(* the elements that deserialized (the failing ones left out, order kept), *)
(* its other keys being as the many found them; yet the record's           *)
(* deserialize returns a target only when every field succeeded, and       *)
(* returns nothing when it raises.                                         *)
(***************************************************************************)
C10_PartialListNeverReturned ==
    call.op = "serializer.deserialize" =>
        /\ \A j \in 1..Len(ret.calls) :
              (/\ call.fields[j].kind = "many"
               /\ ret.calls[j].status = "ValidationException"
               /\ ret.calls[j].calls # <<>>) =>
                  LET f == call.fields[j]
                      c == ret.calls[j]
                  IN  /\ DOMAIN c.target
                             = DOMAIN TargetBefore(j) \cup {f.source_field}
                      /\ c.target[f.source_field] = PyList(Collected(c.calls))
                      /\ Len(Collected(c.calls)) < Len(c.calls)
                      /\ \A k \in DOMAIN TargetBefore(j) \ {f.source_field} :
                             c.target[k] = TargetBefore(j)[k]
        /\ ret.status = "ok" =>
              /\ Len(ret.calls) = Len(call.fields)
              /\ \A j \in 1..Len(ret.calls) : ret.calls[j].status = "ok"
              /\ ret.value = ret.target
        /\ ret.status # "ok" => ret.value = None

\* [1, 2, 1] with 2 rejected: the accumulator holds the two others when the
\* many raises, and the record returns nothing
C10_Witness ==
    /\ call.op = "serializer.deserialize"
    /\ call.fields = <<field("a", "", <<"required">>, FALSE),
                       many("m", "", Sub, <<>>)>>
    /\ call.source = [a |-> PyInt(1),
                      m |-> PyList(<<[x |-> PyInt(1)], [x |-> PyInt(2)],
                                     [x |-> PyInt(1)]>>)]
    /\ ret.calls[2].status = "ValidationException"
    /\ ret.calls[2].target = [a |-> PyInt(1),
                              m |-> PyList(<<[x |-> PyInt(1)],
                                             [x |-> PyInt(1)]>>)]
    /\ ret.status = "ValidationException"
    /\ ret.value = None

(***************************************************************************)
(* A caller of a record of dict_fields without validators: serialize then  *)
(* deserialize, deserialize then serialize, and one field's serialize with *)
(* formatters.  Every rename between the keys a and b is a field.          *)
(***************************************************************************)
DictFields ==
    {field(source_field, target_field, <<>>, FALSE) :
        source_field \in {"a", "b"}, target_field \in {"", "a", "b"}}

\* the mappings with some of `keys` as keys
Mappings(keys, values) == UNION {[K -> values] : K \in SUBSET keys}

source_fields(fields) == {fields[i].source_field : i \in DOMAIN fields}

target_fields(fields) == {fields[i].target_field : i \in DOMAIN fields}

\* deserialize(serialize(x)): `serialized` is what serialize(x) returned
DeserializeSerialized(fields, serialized) ==
    [serialized |-> serialized,
     deserialized |-> serializer_deserialize(fields, serialized)]

\* serialize(deserialize(y)): `deserialized` is what deserialize(y) came to
SerializeDeserialized(fields, deserialized) ==
    [deserialized |-> deserialized,
     serialized |-> IF deserialized.status = "ok"
                    THEN serializer_serialize(fields, deserialized.value)
                    ELSE None]

CallDeserializeSerialize ==
    /\ pc = "idle"
    /\ \E fields \in SeqsUpTo(DictFields, MaxFields),
          x \in Mappings({"a", "b"}, ScalarValues) :
          /\ DOMAIN x = source_fields(fields)
          /\ call' = [op |-> "deserialize.serialize", fields |-> fields,
                      source |-> x]
          /\ ret' = DeserializeSerialized(fields,
                                          serializer_serialize(fields, x))
    /\ pc' = "done"

CallSerializeDeserialize ==
    /\ pc = "idle"
    /\ \E fields \in SeqsUpTo(DictFields, MaxFields),
          y \in Mappings({"a", "b"}, ScalarValues) :
          /\ DOMAIN y = target_fields(fields)
          /\ call' = [op |-> "serialize.deserialize", fields |-> fields,
                      source |-> y]
          /\ ret' = SerializeDeserialized(fields,
                                          serializer_deserialize(fields, y))
    /\ pc' = "done"

CallFieldSerialize ==
    /\ pc = "idle"
    /\ \E f \in DictFields,
          formatters \in SeqsUpTo(Formatters, MaxValidators),
          source \in Mappings({"a", "b"}, ScalarValues),
          target \in Targets :
          /\ call' = [op |-> "field.serialize", f |-> f,
                      formatters |-> formatters, source |-> source,
                      target |-> target]
          /\ ret' = [target |-> field_serialize(f, formatters, source, target)]
    /\ pc' = "done"

NextRoundTrip ==
    \/ CallDeserializeSerialize
    \/ CallSerializeDeserialize
    \/ CallFieldSerialize
    \/ Done

SpecRoundTrip == Init /\ [][NextRoundTrip]_vars

(***************************************************************************)
(* C6, as claimed.  For a record of dict_fields without validators or      *)
(* formatters, whatever the renames: deserialize(serialize(x)) = x for     *)
(* every x whose keys are the fields' source_fields, and                   *)
(* serialize(deserialize(y)) = y for every y whose keys are the fields'    *)
(* target_fields.                                                          *)
(***************************************************************************)
C6_RoundTrip ==
    /\ call.op = "deserialize.serialize" =>
          /\ ret.deserialized.status = "ok"
          /\ ret.deserialized.value = call.source
    /\ call.op = "serialize.deserialize" =>
          /\ ret.deserialized.status = "ok"
          /\ ret.serialized = call.source

\* no two fields with different source_fields have the same target_field
TargetNamesSource(fields) ==
    \A i, j \in DOMAIN fields :
        fields[i].target_field = fields[j].target_field
            => fields[i].source_field = fields[j].source_field

\* no two fields with different target_fields have the same source_field
SourceNamesTarget(fields) ==
    \A i, j \in DOMAIN fields :
        fields[i].source_field = fields[j].source_field
            => fields[i].target_field = fields[j].target_field

(***************************************************************************)
(* C6, amended.  deserialize(serialize(x)) = x provided no two fields with *)
(* different source_fields share a target_field, and                       *)
(* serialize(deserialize(y)) = y provided no two fields with different     *)
(* target_fields share a source_field.                                     *)
(***************************************************************************)
C6_RoundTripOfDistinctNames ==
    /\ (/\ call.op = "deserialize.serialize"
        /\ TargetNamesSource(call.fields)) =>
          /\ ret.deserialized.status = "ok"
          /\ ret.deserialized.value = call.source
    /\ (/\ call.op = "serialize.deserialize"
        /\ SourceNamesTarget(call.fields)) =>
          /\ ret.deserialized.status = "ok"
          /\ ret.serialized = call.source

\* the record that swaps a and b, on a mapping telling them apart
C6_Witness ==
    /\ call.op = "deserialize.serialize"
    /\ call.fields = <<field("a", "b", <<>>, FALSE),
                       field("b", "a", <<>>, FALSE)>>
    /\ call.source = [a |-> PyInt(1), b |-> PyInt(2)]
    /\ ret.serialized = [b |-> PyInt(1), a |-> PyInt(2)]
    /\ ret.deserialized.value = call.source
====
